---- MODULE Spec2Model ----
(***************************************************************************)
(* Model of app.py: the mock-data generator (generate_mock_data, memoized  *)
(* by st.cache_data), the metric enricher (enrich_data) and the sidebar    *)
(* filter that produces filtered_df, over successive runs of the script.   *)
(*                                                                         *)
(* Numbers.  Wall-clock time is counted in ticks, TicksPerDay ticks to a   *)
(* day.  A uniform draw is a rational: the reach multiplier is held in     *)
(* tenths, an engagement fraction in thousandths.  A float column of the   *)
(* enriched frame is held as [k, v]: k = "num" with v the value scaled by  *)
(* 10^decimals (engagement_rate 16.00 is v = 1600), k = "inf" with v the   *)
(* sign, or k = "nan".                                                     *)
(*                                                                         *)
(* Fields creative_type, visual_style and quality_score are drawn and      *)
(* stored by the generator but read by no operation modelled here; they    *)
(* are left out of the records.                                            *)
(***************************************************************************)
EXTENDS Integers, Sequences, FiniteSets, TLC

VARIABLES clock, stream, cache, bodyRuns, firstOut, raw, df,
          platform_filter, hook_filter, date_range, render_now,
          cutoff_date, filtered_df

vars == <<clock, stream, cache, bodyRuns, firstOut, raw, df,
          platform_filter, hook_filter, date_range, render_now,
          cutoff_date, filtered_df>>

(* ---------------------------- bounds ----------------------------------- *)
TicksPerDay == 1
MaxClock    == 2
NumRecords  == 2
GenRecords  == 2
EnrichRecords == 2

(* ------------------------- vocabularies -------------------------------- *)
platforms == {"Instagram", "TikTok", "LinkedIn"}

base_followers(platform) ==
    CASE platform = "Instagram" -> 28000
      [] platform = "TikTok"    -> 35000
      [] platform = "LinkedIn"  -> 12000

(* np.random.uniform(0.5, 8.0), in tenths: the two ends of the range. *)
ReachMultiplierDrawsFromZero == {0, 80}
ReachMultiplierDraws == {5, 80}

(* np.random.uniform(0.02, 0.15), in thousandths: the two ends. *)
LikesFractionDrawsWide == {20, 1500}
LikesFractionDraws == {20, 150}

(* np.random.uniform(0.005, 0.025) *)
SharesFractionDraws == {5, 25}

(* np.random.uniform(0.003, 0.04) *)
SavesFractionDraws == {3, 40}

(* np.random.uniform(0.002, 0.015) *)
CommentsFractionDraws == {2, 15}

(* slider "Days to Include", 1..30: both ends. *)
SliderMin == 1
SliderMax == 30
DateRangeChoices == {SliderMin, SliderMax}

(* ----------------------------- floats ---------------------------------- *)
Num(v) == [k |-> "num", v |-> v]
Inf(s) == [k |-> "inf", v |-> s]
NaN    == [k |-> "nan", v |-> 0]

Pow10(d) == CASE d = 0 -> 1 [] d = 1 -> 10 [] d = 2 -> 100 [] d = 3 -> 1000

(* Series.round: numpy rounds the scaled value to the nearest integer,     *)
(* a half to the even neighbour.  den > 0.                                 *)
RoundTruncate(num, den) == num \div den
RoundHalfEven(num, den) ==
    LET q == num \div den
        r == num % den
    IN  IF 2 * r < den THEN q
        ELSE IF 2 * r > den THEN q + 1
        ELSE IF q % 2 = 0 THEN q ELSE q + 1

(* (a / b * factor).round(decimals) on numeric columns: true division     *)
(* never raises; a zero divisor gives inf, -inf or (0/0) nan, which        *)
(* scaling and rounding leave as they are.                                 *)
DivRound(a, b, factor, decimals) ==
    IF b = 0
    THEN IF a = 0 THEN NaN ELSE Inf(IF a > 0 THEN 1 ELSE -1)
    ELSE Num(RoundHalfEven(a * factor * Pow10(decimals), b))

(* ---------------------------- generator -------------------------------- *)
IntFloor(num, den) == num \div den

RawFields == {"post_id", "platform", "date", "hook_type", "post_time",
              "reach", "likes", "shares", "saves", "comments", "followers"}

(* One iteration of the loop: u is the tuple of values the seeded random   *)
(* stream yields for record i, now is datetime.now().                      *)
MockRecord(i, u, now) ==
    LET followers == base_followers(u.platform)
        reach     == IntFloor(followers * u.reach_multiplier, 10)
    IN  [ post_id   |-> <<"POST_", i>>,
          platform  |-> u.platform,
          date      |-> now - u.days * TicksPerDay,
          hook_type |-> u.hook_type,
          post_time |-> u.post_time,
          reach     |-> reach,
          likes     |-> IntFloor(reach * u.likes, 1000),
          shares    |-> IntFloor(reach * u.shares, 1000),
          saves     |-> IntFloor(reach * u.saves, 1000),
          comments  |-> IntFloor(reach * u.comments, 1000),
          followers |-> followers ]

(* The body of generate_mock_data: np.random.seed(42) fixes the stream s,  *)
(* the clock is read at the time of the call.                              *)
generate_mock_data_body(s, now) ==
    [i \in 1..Len(s) |-> MockRecord(i, s[i], now)]

(* @st.cache_data: the stored value is returned when there is one, the     *)
(* body runs otherwise.                                                    *)
generate_mock_data_uncached(memo, s, now) ==
    [ret |-> generate_mock_data_body(s, now), ran |-> TRUE]
generate_mock_data(memo, s, now) ==
    IF memo # <<>>
    THEN [ret |-> memo, ran |-> FALSE]
    ELSE [ret |-> generate_mock_data_body(s, now), ran |-> TRUE]

(* ----------------------------- enricher -------------------------------- *)
DigitVal(c) ==
    CASE c = "0" -> 0 [] c = "1" -> 1 [] c = "2" -> 2 [] c = "3" -> 3
      [] c = "4" -> 4 [] c = "5" -> 5 [] c = "6" -> 6 [] c = "7" -> 7
      [] c = "8" -> 8 [] c = "9" -> 9

(* df['post_time'].str[:2].astype(int) *)
Hour(t) == DigitVal(t[1]) * 10 + DigitVal(t[2])

(* df['likes'].replace(0, 1) *)
ReplaceNothing(x) == x
ReplaceZeroByOne(x) == IF x = 0 THEN 1 ELSE x

EngagementRateTruncated(total, reach) ==
    IF reach = 0 THEN DivRound(total, reach, 100, 2)
    ELSE Num(RoundTruncate(total * 100 * Pow10(2), reach))
EngagementRate(total, reach) == DivRound(total, reach, 100, 2)

EnrichRow(r) ==
    LET total == r.likes + r.shares + r.saves + r.comments
    IN  r @@
        [ total_engagement   |-> total,
          engagement_rate    |-> EngagementRate(total, r.reach),
          quality_engagement |-> DivRound(r.shares + r.saves,
                                          ReplaceZeroByOne(r.likes), 100, 2),
          reach_efficiency   |-> DivRound(r.reach, r.followers, 1, 2),
          viral_ratio        |-> DivRound(r.reach - r.followers,
                                          r.followers, 100, 1),
          save_rate          |-> DivRound(r.saves, r.reach, 100, 3),
          share_rate         |-> DivRound(r.shares, r.reach, 100, 3),
          hour               |-> Hour(r.post_time) ]

EnrichRows(d) == [i \in 1..Len(d) |-> EnrichRow(d[i])]

(* enrich_data(df): ret is the returned frame, arg is the caller's frame   *)
(* as the call leaves it.  df.copy() makes the column assignments land on  *)
(* a private copy.                                                         *)
enrich_data_in_place(d) == [ret |-> EnrichRows(d), arg |-> EnrichRows(d)]
enrich_data(d) == [ret |-> EnrichRows(d), arg |-> d]

(* ------------------------------ filter --------------------------------- *)
(* df[col].unique() *)
Unique(d, col) == {d[i][col] : i \in 1..Len(d)}

FilterMaskStrict(d, P, H, cutoff) ==
    [i \in 1..Len(d) |-> /\ d[i].platform \in P
                         /\ d[i].hook_type \in H
                         /\ d[i].date > cutoff]
FilterMask(d, P, H, cutoff) ==
    [i \in 1..Len(d) |-> /\ d[i].platform \in P
                         /\ d[i].hook_type \in H
                         /\ d[i].date >= cutoff]

(* df[mask]: the rows whose mask entry is True, in frame order. *)
RECURSIVE BooleanIndex(_, _, _)
BooleanIndex(d, mask, n) ==
    IF n = 0 THEN <<>>
    ELSE IF mask[n] THEN Append(BooleanIndex(d, mask, n - 1), d[n])
         ELSE BooleanIndex(d, mask, n - 1)

(* --------------------------- specification ----------------------------- *)
(* Tuples the seeded stream can yield for one record.  NarrowDraws varies  *)
(* what the filter reads: every pair of platform, hook type and day offset *)
(* occurs in one of its four tuples; the day offsets are the two ends of   *)
(* np.random.randint(0, 30), whose upper end is exclusive.  WideDraws      *)
(* varies what the counts are computed from: every platform with both ends *)
(* of every uniform range.                                                 *)
NarrowDraws ==
    { [ platform |-> t[1], reach_multiplier |-> 10,
        likes |-> 150, shares |-> 25, saves |-> 40, comments |-> 15,
        days |-> t[3], hook_type |-> t[2],
        post_time |-> <<"0","7",":","0","0">> ] :
      t \in { <<"Instagram", "Question", 0>>, <<"Instagram", "Story", 29>>,
              <<"LinkedIn", "Question", 29>>, <<"LinkedIn", "Story", 0>> } }

WideDraws ==
    [ platform : platforms, reach_multiplier : ReachMultiplierDraws,
      likes : LikesFractionDraws, shares : SharesFractionDraws,
      saves : SavesFractionDraws, comments : CommentsFractionDraws,
      days : {0}, hook_type : {"Trend"},
      post_time : { <<"2","0",":","0","0">> } ]

ProcessStart ==
    /\ cache = <<>>
    /\ bodyRuns = 0
    /\ raw = <<>>
    /\ df = <<>>
    /\ platform_filter = {}
    /\ hook_filter = {}
    /\ date_range = 0
    /\ render_now = 0
    /\ cutoff_date = 0
    /\ filtered_df = <<>>

Init ==
    /\ clock = 0
    /\ stream \in [1..NumRecords -> NarrowDraws]
    /\ firstOut = <<>>
    /\ ProcessStart

(* One run of the script, top to bottom (lines 92-124): P, H and d are the *)
(* widget values of this run, dt the time that passes between the reading  *)
(* of the clock in the generator body and the one of line 119 (none when   *)
(* the body does not run: Tick is the time between runs).                  *)
Render ==
    \E call \in {generate_mock_data(cache, stream, clock)} :
    \E e \in {enrich_data(call.ret)} :
        \E dt \in IF call.ran THEN 0..1 ELSE {0} :
        \E P \in SUBSET Unique(e.ret, "platform") :
        \E H \in SUBSET Unique(e.ret, "hook_type") :
        \E d \in DateRangeChoices :
          /\ clock + dt <= MaxClock
          /\ clock' = clock + dt
          /\ cache' = call.ret
          /\ bodyRuns' = IF call.ran THEN bodyRuns + 1 ELSE bodyRuns
          /\ firstOut' = IF call.ran /\ firstOut = <<>> THEN call.ret
                         ELSE firstOut
          /\ raw' = e.arg
          /\ df' = e.ret
          /\ platform_filter' = P
          /\ hook_filter' = H
          /\ date_range' = d
          /\ render_now' = clock + dt
          /\ cutoff_date' = render_now' - d * TicksPerDay
          /\ filtered_df' = BooleanIndex(e.ret,
                                FilterMask(e.ret, P, H, cutoff_date'),
                                Len(e.ret))
          /\ UNCHANGED stream

(* Time passes between two runs of the script. *)
Tick ==
    /\ clock < MaxClock
    /\ clock' = clock + 1
    /\ UNCHANGED <<stream, cache, bodyRuns, firstOut, raw, df,
                   platform_filter, hook_filter, date_range, render_now,
                   cutoff_date, filtered_df>>

(* One process: runs of the script, with time passing between them. *)
Next == Render \/ Tick

Spec == Init /\ [][Next]_vars

(* --------------------- successive processes ---------------------------- *)
(* The process ends and a new one starts: the memo is in process memory. *)
Restart ==
    /\ cache # <<>>
    /\ cache' = <<>>
    /\ bodyRuns' = 0
    /\ raw' = <<>>
    /\ df' = <<>>
    /\ platform_filter' = {}
    /\ hook_filter' = {}
    /\ date_range' = 0
    /\ render_now' = 0
    /\ cutoff_date' = 0
    /\ filtered_df' = <<>>
    /\ UNCHANGED <<clock, stream, firstOut>>

NextRuns == Render \/ Tick \/ Restart

SpecRuns == Init /\ [][NextRuns]_vars

(* ------------------- the generator on its own -------------------------- *)
InitGen ==
    /\ clock = 0
    /\ stream \in [1..GenRecords -> WideDraws]
    /\ firstOut = <<>>
    /\ ProcessStart

(* Line 92: df = generate_mock_data(). *)
GenerateCall ==
    \E call \in {generate_mock_data(cache, stream, clock)} :
        /\ cache = <<>>
        /\ cache' = call.ret
        /\ bodyRuns' = IF call.ran THEN bodyRuns + 1 ELSE bodyRuns
        /\ firstOut' = IF call.ran /\ firstOut = <<>> THEN call.ret
                       ELSE firstOut
        /\ raw' = call.ret
        /\ UNCHANGED <<clock, stream, df, platform_filter, hook_filter,
                       date_range, render_now, cutoff_date, filtered_df>>

NextGen == GenerateCall

SpecGen == InitGen /\ [][NextGen]_vars

(* -------------------- the enricher on its own -------------------------- *)
(* Frames a caller can hand to enrich_data, the three records of the       *)
(* worked examples among their rows: reach 1000 with counts 100/20/30/10,  *)
(* likes 0 with shares 5 and saves 5, reach 8000 under followers 10000;    *)
(* and rows with reach 0.                                                  *)
InputCounts ==
    [ reach : {0, 1000, 7000, 8000}, likes : {0, 100}, shares : {5, 20},
      saves : {5, 30}, comments : {10}, followers : {10000} ]

InputRecord(i, c) ==
    [ post_id   |-> <<"POST_", i>>,
      platform  |-> "TikTok",
      date      |-> 0,
      hook_type |-> "Story",
      post_time |-> <<"1","4",":","0","0">>,
      reach     |-> c.reach,
      likes     |-> c.likes,
      shares    |-> c.shares,
      saves     |-> c.saves,
      comments  |-> c.comments,
      followers |-> c.followers ]

InitEnrich ==
    /\ clock = 0
    /\ stream = <<>>
    /\ firstOut = <<>>
    /\ cache = <<>>
    /\ bodyRuns = 0
    /\ \E c \in [1..EnrichRecords -> InputCounts] :
           raw = [i \in 1..EnrichRecords |-> InputRecord(i, c[i])]
    /\ df = <<>>
    /\ platform_filter = {}
    /\ hook_filter = {}
    /\ date_range = 0
    /\ render_now = 0
    /\ cutoff_date = 0
    /\ filtered_df = <<>>

(* Line 93: df = enrich_data(df). *)
EnrichCall ==
    \E e \in {enrich_data(raw)} :
        /\ df = <<>>
        /\ df' = e.ret
        /\ raw' = e.arg
        /\ UNCHANGED <<clock, stream, cache, bodyRuns, firstOut,
                       platform_filter, hook_filter, date_range, render_now,
                       cutoff_date, filtered_df>>

NextEnrich == EnrichCall

SpecEnrich == InitEnrich /\ [][NextEnrich]_vars

(* ------------------------------ claims --------------------------------- *)
Abs(x) == IF x < 0 THEN -x ELSE x

(* f is the number num/den rounded to the nearest unit (den > 0). *)
Nearest(f, num, den) == f.k = "num" /\ 2 * Abs(f.v * den - num) <= den

Counts(r) == r.likes + r.shares + r.saves + r.comments

(* C1: any two executions of the generator yield identical collections,    *)
(* the date field included: the collection the memo holds equals the one   *)
(* the first execution ever produced.                                      *)
C1_Determinism ==
    (cache # <<>> /\ firstOut # <<>>) => cache = firstOut

(* C2: every generated record has reach > 0 and followers > 0, and likes,  *)
(* shares, saves and comments are non-negative integers.                   *)
C2_PositiveReach ==
    \A i \in 1..Len(cache) :
        /\ cache[i].reach > 0
        /\ cache[i].followers > 0
        /\ cache[i].likes \in Nat
        /\ cache[i].shares \in Nat
        /\ cache[i].saves \in Nat
        /\ cache[i].comments \in Nat

(* The smallest reach: LinkedIn at multiplier 0.5, smallest fractions. *)
C2_Witness ==
    /\ cache # <<>>
    /\ \E i \in 1..Len(cache) :
          /\ cache[i].reach = 6000
          /\ cache[i].comments = 12
          /\ cache[i].saves = 18

(* C3: enrich_data returns a frame of the same length and order whose      *)
(* original fields keep their input values, and leaves the frame it was    *)
(* given as it was.                                                        *)
C3_InputUntouched ==
    [][ (df = <<>> /\ df' # <<>>) =>
           /\ raw' = raw
           /\ Len(df') = Len(raw)
           /\ \A i \in 1..Len(raw) :
                 /\ RawFields \subseteq DOMAIN df'[i]
                 /\ \A f \in RawFields : df'[i][f] = raw[i][f] ]_vars

C3_Witness ==
    /\ df # <<>>
    /\ Len(raw) >= 2
    /\ raw[1].reach # raw[2].reach
    /\ DOMAIN raw[1] = RawFields
    /\ df[2].reach = raw[2].reach

(* C4: enrich_data given a record with reach = 0 returns no frame, and no  *)
(* returned frame holds an infinite or NaN engagement_rate, save_rate or   *)
(* share_rate.                                                             *)
C4_RejectsZeroReach ==
    /\ (\E i \in 1..Len(raw) : raw[i].reach = 0) => df = <<>>
    /\ \A i \in 1..Len(df) :
          /\ df[i].engagement_rate.k = "num"
          /\ df[i].save_rate.k = "num"
          /\ df[i].share_rate.k = "num"

(* C5: on a record with reach > 0, followers > 0 and non-negative counts,  *)
(* total_engagement is the sum of the four counts, engagement_rate is      *)
(* total/reach*100 to 2 decimals, reach_efficiency reach/followers to 2,   *)
(* viral_ratio (reach-followers)/followers*100 to 1 (negative below the    *)
(* follower count), save_rate and share_rate to 3; with the two worked     *)
(* examples.                                                               *)
C5_Metrics ==
    \A i \in 1..Len(df) :
        LET r == df[i] IN
        (r.reach > 0 /\ r.followers > 0) =>
            /\ r.total_engagement = Counts(raw[i])
            /\ Nearest(r.engagement_rate, Counts(raw[i]) * 100 * 100, r.reach)
            /\ Nearest(r.reach_efficiency, r.reach * 100, r.followers)
            /\ Nearest(r.viral_ratio,
                       (r.reach - r.followers) * 100 * 10, r.followers)
            /\ Nearest(r.save_rate, r.saves * 100 * 1000, r.reach)
            /\ Nearest(r.share_rate, r.shares * 100 * 1000, r.reach)
            /\ (r.reach < r.followers => r.viral_ratio.v < 0)
            /\ (r.reach = 1000 /\ r.likes = 100 /\ r.shares = 20
                  /\ r.saves = 30 /\ r.comments = 10 =>
                    /\ r.total_engagement = 160
                    /\ r.engagement_rate = Num(1600)
                    /\ r.save_rate = Num(3000)
                    /\ r.share_rate = Num(2000))
            /\ (r.followers = 10000 /\ r.reach = 8000 =>
                    r.viral_ratio = Num(-200))

C5_Witness ==
    /\ df # <<>>
    /\ \E i \in 1..Len(df) :
          /\ df[i].reach = 1000 /\ df[i].likes = 100 /\ df[i].shares = 20
          /\ df[i].saves = 30 /\ df[i].comments = 10
          /\ df[i].engagement_rate = Num(1600)
    /\ \E j \in 1..Len(df) :
          /\ df[j].reach = 8000
          /\ df[j].viral_ratio = Num(-200)

(* C6: quality_engagement is (shares + saves) / max(likes, 1) * 100 to 2   *)
(* decimals, a finite number also when likes = 0 (likes 0, shares 5,       *)
(* saves 5 give 1000.00).                                                  *)
C6_QualityEngagement ==
    \A i \in 1..Len(df) :
        LET r == df[i]
            m == IF r.likes >= 1 THEN r.likes ELSE 1
        IN  /\ Nearest(r.quality_engagement,
                       (r.shares + r.saves) * 100 * 100, m)
            /\ (r.likes = 0 /\ r.shares = 5 /\ r.saves = 5 =>
                    r.quality_engagement = Num(100000))

C6_Witness ==
    /\ df # <<>>
    /\ \E i \in 1..Len(df) :
          /\ df[i].likes = 0 /\ df[i].shares = 5 /\ df[i].saves = 5
          /\ df[i].quality_engagement = Num(100000)
    /\ \E j \in 1..Len(df) :
          /\ df[j].likes = 100
          /\ df[j].quality_engagement = Num(5000)

(* C7 as stated: some draw of the generator gives a record whose           *)
(* likes + shares + saves + comments exceeds its reach.                    *)
C7_SumCanExceedReach ==
    \E u \in WideDraws :
        LET r == generate_mock_data_body(<<u>>, clock)[1]
        IN  Counts(r) > r.reach

(* C7 amended: no generated record has likes + shares + saves + comments   *)
(* above its reach.                                                        *)
C7_SumWithinReach ==
    \A i \in 1..Len(cache) : Counts(cache[i]) <= cache[i].reach

(* All four fractions at the top of their ranges: 23% of the reach. *)
C7_Witness ==
    /\ cache # <<>>
    /\ \E i \in 1..Len(cache) :
          /\ cache[i].reach = 280000
          /\ cache[i].likes = 42000
          /\ Counts(cache[i]) = 64400

(* C8: within one process the generator body runs at most once; a later    *)
(* call returns the stored collection, so every run of the script shows    *)
(* the raw records, dates included, of the run before it.                  *)
C8_ComputedOnce ==
    [][ /\ bodyRuns' <= 1
        /\ (cache # <<>> /\ cache' # <<>> => cache' = cache)
        /\ (df # <<>> /\ df' # <<>> =>
               /\ Len(df') = Len(df)
               /\ \A i \in 1..Len(df) : \A f \in RawFields :
                     df'[i][f] = df[i][f]) ]_vars

(* A run of the script more than a tick after the one that generated. *)
C8_Witness ==
    /\ bodyRuns = 1
    /\ df # <<>>
    /\ render_now > cache[1].date + stream[1].days * TicksPerDay + 1
    /\ df[1].date = cache[1].date

(* C9: filtered_df holds exactly the records of df whose platform is       *)
(* selected, whose hook_type is selected and whose date is not before      *)
(* now - d days, now read in this run; in the order of df, unchanged.      *)
C9_Keep(r) ==
    /\ r.platform \in platform_filter
    /\ r.hook_type \in hook_filter
    /\ r.date >= render_now - date_range * TicksPerDay

C9_FilterExact ==
    df # <<>> =>
        /\ \A i \in 1..Len(df) :
              C9_Keep(df[i]) <=>
                  \E j \in 1..Len(filtered_df) : filtered_df[j] = df[i]
        /\ \A j \in 1..Len(filtered_df) :
              \E i \in 1..Len(df) : filtered_df[j] = df[i]
        /\ \A j \in 1..Len(filtered_df) : \A k \in 1..Len(filtered_df) :
              j < k => filtered_df[j].post_id[2] < filtered_df[k].post_id[2]

(* A record dated exactly at the cutoff is kept, another is dropped. *)
C9_Witness ==
    /\ df # <<>>
    /\ Len(filtered_df) >= 1
    /\ Len(filtered_df) < Len(df)
    /\ \E j \in 1..Len(filtered_df) :
          filtered_df[j].date = render_now - date_range * TicksPerDay

(* C10: in every run of the script every record's date lies in the 30 days *)
(* ending at that run's current time, so the slider at 30 with every       *)
(* platform and hook type selected keeps every record.                     *)
C10_WithinLookback ==
    df # <<>> =>
        /\ \A i \in 1..Len(df) :
              /\ df[i].date >= render_now - SliderMax * TicksPerDay
              /\ df[i].date <= render_now
        /\ ( /\ date_range = SliderMax
             /\ platform_filter = Unique(df, "platform")
             /\ hook_filter = Unique(df, "hook_type") )
           => Len(filtered_df) = Len(df)

====
